---- MODULE Spec2Model ----
(***************************************************************************)
(* gpu-idle-exporter: the idle tracker (package idle).                     *)
(*                                                                         *)
(* Tracker.Update consumes one snapshot (a timestamp and a list of         *)
(* per-process samples) per polling cycle, keeps one processState per      *)
(* (GPU, PID) key, returns one ProcessIdleState per sample and sweeps      *)
(* the keys that have not been seen for longer than staleTimeout.          *)
(* Collector.Collect builds the snapshot: for every device it merges the   *)
(* processes holding memory with the utilization samples the driver        *)
(* returns since the device's lastSampleTime.                              *)
(*                                                                         *)
(* Time is counted in units of 30 s, so staleTimeout (30 s) is 1, and      *)
(* memory in GiB.  A snapshot's timestamp is time.Now() at collection:     *)
(* it never decreases from one cycle to the next, and the gap between two  *)
(* cycles may exceed staleTimeout (POLL_INTERVAL is configurable, and a    *)
(* failed collection skips the cycle).                                     *)
(***************************************************************************)
EXTENDS Integers, Sequences, FiniteSets, TLC

\* ---------------------------------------------------------------- bounds
MaxTime == 3          \* snapshots are taken while the clock is <= MaxTime
MaxDt == 2            \* the clock advances by 0..MaxDt between snapshots
MaxStamp == 2         \* utilization samples are stamped 1..MaxStamp

\* ------------------------------------------------------ program constants
staleTimeout == 1     \* 30 * time.Second
ZeroTime == 0         \* time.Time{}: before every snapshot timestamp

GPUs == {0, 1}
PIDs == {1}
Mems == {1, 2}
Utils == {0, 50}

\* processKey{GPU, PID}
processKey(p) == <<p.GPU, p.PID>>
Keys == GPUs \X PIDs

\* collector.ProcessSample
ProcessSample == [GPU : GPUs, PID : PIDs, UsedMemory : Mems, SmUtil : Utils]

VARIABLES
    states,     \* Tracker.states: processKey -> processState (a partial map)
    now,        \* the clock; after a cycle, snap.Timestamp of that cycle
    batch,      \* snap.Processes of the last cycle
    results,    \* what the last Update returned
    trail,      \* history (SpecTrail): per tracked key, its last two observations
    gaps,       \* history (SpecGap): per tracked key, its last view and gap
    evicted,    \* history (SpecEvict): keys deleted by the cleanup loop
    seenAt,     \* history (SpecSeen): per tracked key, when it was in a batch
    twin,       \* SpecTwin: a second tracker fed the same snapshots
    lastObs,    \* history (SpecObs): per tracked key, its latest observations
    lastSampleTime, \* Collector.lastSampleTime: device index -> timestamp
    nvml,       \* what the driver answered in the last collection, per device
    snap,       \* what the last collection returned
    consumed,   \* history (SpecConsume): per device, the samples returned so far
    processComputeUtil,  \* Exporter: the series of each per-process gauge,
    processMemUsed,      \*   a map from the label set to the value
    processIdleSecs,
    processIdleMem,
    idleMemTotal,        \* Exporter.idleMemTotal: label gpu -> value
    prevProcessKeys,     \* Exporter.prevProcessKeys
    views,      \* the states passed to the last UpdateMetrics call
    pc,         \* main: where each goroutine is
    ctxDone,    \* ctx is cancelled
    gctxDone,   \* gctx, the context of the errgroup, is cancelled
    tick,       \* ticker.C holds a tick
    sigCh,      \* the signal: "none", "pending" in sigCh, or "taken"
    errCh,      \* errCh holds the error of ListenAndServe
    firstErr,   \* the first error returned in the errgroup, or "nil"
    polling,    \* the number of poll invocations in progress
    access,     \* history: <<goroutine, object>> for every access so far
    exit        \* "running", or how main ended: "normal" or "fatal"

vars == <<states, now, batch, results, trail, gaps, evicted, seenAt, twin,
          lastObs, lastSampleTime, nvml, snap, consumed,
          processComputeUtil, processMemUsed, processIdleSecs, processIdleMem,
          idleMemTotal, prevProcessKeys, views,
          pc, ctxDone, gctxDone, tick, sigCh, errCh, firstErr, polling, access, exit>>

trackerVars == <<states, now, batch, results, trail, gaps, evicted, seenAt, twin,
                 lastObs>>

collectorVars == <<lastSampleTime, nvml, snap>>

\* what the specifications of the tracker or the collector alone leave as it is
exporterVars == <<processComputeUtil, processMemUsed, processIdleSecs,
                  processIdleMem, idleMemTotal, prevProcessKeys, views>>

mainVars == <<pc, ctxDone, gctxDone, tick, sigCh, errCh, firstErr, polling,
              access, exit>>

otherVars == <<consumed, exporterVars, mainVars>>

\* ------------------------------------------------------------ Tracker.Update
\* variant: a new key has not been active yet
NewState_NeverActive(t) ==
    [LastActiveTime |-> ZeroTime, FirstSeenTime |-> t, LastSeenTime |-> t,
     IsIdle |-> FALSE, IdleSince |-> ZeroTime]

\* the processState created for a key that is not in t.states
NewState(t) ==
    [LastActiveTime |-> t, FirstSeenTime |-> t, LastSeenTime |-> t,
     IsIdle |-> FALSE, IdleSince |-> ZeroTime]

\* variant: the idle streak restarts at every sample without compute
Transition_RestartsIdle(st, p, t) ==
    LET seenSt == [st EXCEPT !.LastSeenTime = t]
    IN  IF p.SmUtil > 0
        THEN [seenSt EXCEPT !.LastActiveTime = t, !.IsIdle = FALSE]
        ELSE [seenSt EXCEPT !.IsIdle = TRUE, !.IdleSince = t]

\* variant: activity refreshes LastActiveTime but leaves IsIdle set
Transition_StickyIdle(st, p, t) ==
    LET seenSt == [st EXCEPT !.LastSeenTime = t]
    IN  IF p.SmUtil > 0
        THEN [seenSt EXCEPT !.LastActiveTime = t]
        ELSE IF ~seenSt.IsIdle
             THEN [seenSt EXCEPT !.IsIdle = TRUE, !.IdleSince = t]
             ELSE seenSt

\* variant: LastSeenTime is refreshed only by a sample with compute
Transition_SeenWhenActive(st, p, t) ==
    IF p.SmUtil > 0
    THEN [st EXCEPT !.LastSeenTime = t, !.LastActiveTime = t, !.IsIdle = FALSE]
    ELSE IF ~st.IsIdle
         THEN [st EXCEPT !.IsIdle = TRUE, !.IdleSince = t]
         ELSE st

\* variant: utilization up to 5% counts as no compute
Transition_Threshold(st, p, t) ==
    LET seenSt == [st EXCEPT !.LastSeenTime = t]
    IN  IF p.SmUtil > 5
        THEN [seenSt EXCEPT !.LastActiveTime = t, !.IsIdle = FALSE]
        ELSE IF ~seenSt.IsIdle
             THEN [seenSt EXCEPT !.IsIdle = TRUE, !.IdleSince = t]
             ELSE seenSt

\* the transition of a key that is in t.states
Transition(st, p, t) ==
    LET seenSt == [st EXCEPT !.LastSeenTime = t]
    IN  IF p.SmUtil > 0
        THEN [seenSt EXCEPT !.LastActiveTime = t, !.IsIdle = FALSE]
        ELSE IF ~seenSt.IsIdle
             THEN [seenSt EXCEPT !.IsIdle = TRUE, !.IdleSince = t]
             ELSE seenSt

\* variant: without the goto emit, a new key falls through to the transition
Classify_NoGrace(tbl, p, t) ==
    IF processKey(p) \in DOMAIN tbl
    THEN Transition(tbl[processKey(p)], p, t)
    ELSE Transition(NewState(t), p, t)

\* the state of p's key after p has been processed
Classify(tbl, p, t) ==
    IF processKey(p) \in DOMAIN tbl
    THEN Transition(tbl[processKey(p)], p, t)
    ELSE NewState(t)

\* variant: the duration is taken from IdleSince whenever it has been set
Emit_StaleDuration(st, p, t) ==
    [GPU |-> p.GPU, PID |-> p.PID, UsedMemory |-> p.UsedMemory,
     SmUtil |-> p.SmUtil, IsIdle |-> st.IsIdle,
     IdleDuration |-> IF st.IdleSince # ZeroTime THEN t - st.IdleSince ELSE 0,
     IdleMemory |-> IF st.IsIdle THEN p.UsedMemory ELSE 0]

\* the emit: block, the ProcessIdleState appended for p
Emit(st, p, t) ==
    [GPU |-> p.GPU, PID |-> p.PID, UsedMemory |-> p.UsedMemory,
     SmUtil |-> p.SmUtil, IsIdle |-> st.IsIdle,
     IdleDuration |-> IF st.IsIdle THEN t - st.IdleSince ELSE 0,
     IdleMemory |-> IF st.IsIdle THEN p.UsedMemory ELSE 0]

\* t.states[key] = st
Put(tbl, k, st) == (k :> st) @@ tbl

\* variant: a new key is stored but the loop continues without emitting
RECURSIVE UpdateLoop_SkipNew(_, _, _, _, _)
UpdateLoop_SkipNew(tbl, ps, t, i, res) ==
    IF i > Len(ps)
    THEN [states |-> tbl, results |-> res]
    ELSE LET p == ps[i]
             st == Classify(tbl, p, t)
         IN  UpdateLoop_SkipNew(Put(tbl, processKey(p), st), ps, t, i + 1,
                                IF processKey(p) \in DOMAIN tbl
                                THEN Append(res, Emit(st, p, t))
                                ELSE res)

\* the loop over snap.Processes, from sample i on
RECURSIVE UpdateLoop(_, _, _, _, _)
UpdateLoop(tbl, ps, t, i, res) ==
    IF i > Len(ps)
    THEN [states |-> tbl, results |-> res]
    ELSE LET p == ps[i]
             st == Classify(tbl, p, t)
         IN  UpdateLoop(Put(tbl, processKey(p), st), ps, t, i + 1,
                        Append(res, Emit(st, p, t)))

\* the keys of the batch (the seen map)
seen(ps) == {processKey(ps[i]) : i \in 1..Len(ps)}

\* variant: >= in place of >
IsStale_Inclusive(tbl, sn, k, t) ==
    k \notin sn /\ t - tbl[k].LastSeenTime >= staleTimeout

\* variant: the timeout is counted from the cycle after the last sighting
IsStale_Late(tbl, sn, k, t) ==
    k \notin sn /\ t - tbl[k].LastSeenTime > staleTimeout + 1

\* variant: the seen map is looked up by PID alone
IsStale_SeenByPid(tbl, sn, k, t) ==
    k[2] \notin {x[2] : x \in sn} /\ t - tbl[k].LastSeenTime > staleTimeout

\* variant: the timeout is counted from the creation of the entry
IsStale_ByFirstSeen(tbl, sn, k, t) ==
    k \notin sn /\ t - tbl[k].FirstSeenTime > staleTimeout

\* the stale test of the cleanup loop
IsStale(tbl, sn, k, t) ==
    k \notin sn /\ t - tbl[k].LastSeenTime > staleTimeout

\* variant: a key that is kept without having been seen is marked active
Sweep_ClearsUnseen(tbl, sn, t) ==
    LET keep == {k \in DOMAIN tbl : ~IsStale(tbl, sn, k, t)}
    IN  [k \in keep |-> IF k \in sn THEN tbl[k] ELSE [tbl[k] EXCEPT !.IsIdle = FALSE]]

\* the cleanup loop: delete every stale key
Sweep(tbl, sn, t) ==
    LET keep == {k \in DOMAIN tbl : ~IsStale(tbl, sn, k, t)}
    IN  [k \in keep |-> tbl[k]]

\* variant: Update returns early, before the cleanup, on an empty batch
TrackerUpdate_SkipsEmpty(tbl, ps, t) ==
    IF ps = <<>>
    THEN [states |-> tbl, results |-> <<>>]
    ELSE [states |-> Sweep(UpdateLoop(tbl, ps, t, 1, <<>>).states, seen(ps), t),
          results |-> UpdateLoop(tbl, ps, t, 1, <<>>).results]

\* Tracker.Update(snap) with snap.Timestamp = t and snap.Processes = ps
TrackerUpdate(tbl, ps, t) ==
    LET Cleanup(looped) == [states |-> Sweep(looped.states, seen(ps), t),
                            results |-> looped.results]
    IN  Cleanup(UpdateLoop(tbl, ps, t, 1, <<>>))

\* t.states without key k: delete(t.states, key)
Delete(tbl, k) == [x \in DOMAIN tbl \ {k} |-> tbl[x]]

\* the cleanup loop as Go runs it: range over t.states visits the keys one
\* by one, in an order the runtime picks (order), from the i-th on
RECURSIVE SweepInOrder(_, _, _, _, _)
SweepInOrder(tbl, sn, t, order, i) ==
    IF i > Len(order)
    THEN tbl
    ELSE SweepInOrder(IF order[i] \in DOMAIN tbl /\ IsStale(tbl, sn, order[i], t)
                      THEN Delete(tbl, order[i])
                      ELSE tbl,
                      sn, t, order, i + 1)

\* the orders in which a range over a map with the keys S can visit them
KeyOrders(S) ==
    {f \in [1..Cardinality(S) -> S] : \A i, j \in 1..Cardinality(S) : i # j => f[i] # f[j]}

\* variant: now is read from the wall clock
UpdateOnce_WallClock(tbl, ps, ts, wall, order) ==
    LET Cleanup(looped) == [states |-> SweepInOrder(looped.states, seen(ps), wall, order, 1),
                            results |-> looped.results]
    IN  Cleanup(UpdateLoop(tbl, ps, wall, 1, <<>>))

\* Tracker.Update(snap) run when the wall clock reads wall, the range over
\* t.states following order: now := snap.Timestamp
UpdateOnce(tbl, ps, ts, wall, order) ==
    LET Cleanup(looped) == [states |-> SweepInOrder(looped.states, seen(ps), ts, order, 1),
                            results |-> looped.results]
    IN  Cleanup(UpdateLoop(tbl, ps, ts, 1, <<>>))

\* a tracker that has not run
NoTwin == [states |-> <<>>, results |-> <<>>, order |-> <<>>]

\* ------------------------------------------------------------------- inputs
\* a snapshot holds one sample per memory-holding process of each device
SampleKey(p) == <<p.GPU, p.PID>>

SampleKeys(ps) == {SampleKey(ps[i]) : i \in 1..Len(ps)}

SampleOf(ps, k) == ps[CHOOSE i \in 1..Len(ps) : SampleKey(ps[i]) = k]

Distinct(ps) == \A i, j \in 1..Len(ps) : i # j => SampleKey(ps[i]) # SampleKey(ps[j])

Batches ==
    {ps \in UNION {[1..n -> ProcessSample] : n \in 0..Cardinality(Keys)} : Distinct(ps)}

\* Update itself takes any list of samples: a key may be in it twice
RepeatBatches == UNION {[1..n -> ProcessSample] : n \in 0..Cardinality(Keys)}

\* the same samples with other magnitudes of the utilization above 0
Magnitudes == {1, 99}

Rescalings(ps) ==
    {[i \in 1..Len(ps) |->
         [ps[i] EXCEPT !.SmUtil = IF ps[i].SmUtil = 0 THEN 0 ELSE m[i]]] :
        m \in [1..Len(ps) -> Magnitudes]}

Steps == 0..MaxDt

\* ------------------------------------------------------- Collector.Collect
\* The driver (NVML) is the environment.  Its answer for one device is a
\* record: whether DeviceGetHandleByIndex succeeded (handle), the status and
\* the list of GetComputeRunningProcesses (procsRet, procs), and the status
\* and the list of GetProcessUtilization (utilRet, utilSamples).  A query
\* that does not succeed returns no list, and GetProcessUtilization returns
\* only samples stamped after the timestamp it is given.
Pids == {1, 2}
SmUtils == {0, 30, 50}
WindowLens == 0..2
Stamps == 1..MaxStamp

\* nvml.ProcessInfo
ProcessInfo == [Pid : Pids, UsedGpuMemory : Mems]

\* nvml.ProcessUtilizationSample
ProcessUtilizationSample == [Pid : Pids, SmUtil : SmUtils, TimeStamp : Stamps]

\* c.lastSampleTime[gpuIndex]: a missing entry reads as 0
LastTS(lst, gpuIndex) == IF gpuIndex \in DOMAIN lst THEN lst[gpuIndex] ELSE 0

\* variant: the timestamp of the last sample wins
RECURSIVE maxTS_LastWins(_, _, _)
maxTS_LastWins(ss, i, m) ==
    IF i > Len(ss)
    THEN m
    ELSE maxTS_LastWins(ss, i + 1, ss[i].TimeStamp)

\* the loop that raises maxTS, from sample i on
RECURSIVE maxTS(_, _, _)
maxTS(ss, i, m) ==
    IF i > Len(ss)
    THEN m
    ELSE maxTS(ss, i + 1, IF ss[i].TimeStamp > m THEN ss[i].TimeStamp ELSE m)

\* variant: the mark is written on every call, from the samples alone
StoreTS_Reset(lst, gpuIndex, ss) == (gpuIndex :> maxTS(ss, 1, 0)) @@ lst

\* c.lastSampleTime after the call: written only when samples were returned
StoreTS(lst, gpuIndex, ss) ==
    IF Len(ss) > 0
    THEN (gpuIndex :> maxTS(ss, 1, LastTS(lst, gpuIndex))) @@ lst
    ELSE lst

\* variant: the utilization of the last sample of a pid wins
RECURSIVE utilMap_LastWins(_, _, _)
utilMap_LastWins(ss, i, m) ==
    IF i > Len(ss)
    THEN m
    ELSE utilMap_LastWins(ss, i + 1, [m EXCEPT ![ss[i].Pid] = ss[i].SmUtil])

\* the loop that builds utilMap, from sample i on; a missing pid reads as 0
RECURSIVE utilMap(_, _, _)
utilMap(ss, i, m) ==
    IF i > Len(ss)
    THEN m
    ELSE utilMap(ss, i + 1,
                 IF ss[i].SmUtil > m[ss[i].Pid]
                 THEN [m EXCEPT ![ss[i].Pid] = ss[i].SmUtil]
                 ELSE m)

\* the merge loop: one ProcessSample per process holding memory
MergeSamples(gpuIndex, procs, um) ==
    [i \in 1..Len(procs) |->
        [GPU |-> gpuIndex, PID |-> procs[i].Pid,
         UsedMemory |-> procs[i].UsedGpuMemory, SmUtil |-> um[procs[i].Pid]]]

\* Collector.collectProcesses: the samples returned and c.lastSampleTime
collectProcesses(gpuIndex, dev, lst) ==
    IF dev.procsRet # "SUCCESS" \/ Len(dev.procs) = 0
    THEN [samples |-> <<>>, lastSampleTime |-> lst]
    ELSE [samples |-> MergeSamples(gpuIndex, dev.procs,
                                   utilMap(dev.utilSamples, 1, [p \in Pids |-> 0])),
          lastSampleTime |-> StoreTS(lst, gpuIndex, dev.utilSamples)]

\* snap == nil
NoSnapshot == [ok |-> FALSE, Processes |-> <<>>]

\* the loop over the devices, from device i on
RECURSIVE CollectLoop(_, _, _, _)
CollectLoop(ans, i, lst, procs) ==
    IF i \notin DOMAIN ans
    THEN [lastSampleTime |-> lst, snap |-> [ok |-> TRUE, Processes |-> procs]]
    ELSE IF ~ans[i].handle
         THEN CollectLoop(ans, i + 1, lst, procs)
         ELSE LET Step(got) ==
                      CollectLoop(ans, i + 1, got.lastSampleTime,
                                  procs \o got.samples)
              IN  Step(collectProcesses(i, ans[i], lst))

\* Collector.Collect() when DeviceGetCount succeeds (countOK) or fails
CollectorCollect(countOK, ans, lst) ==
    IF ~countOK
    THEN [lastSampleTime |-> lst, snap |-> NoSnapshot]
    ELSE CollectLoop(ans, 0, lst, <<>>)

\* the driver's answers
DistinctPids(hs) == \A i, j \in 1..Len(hs) : i # j => hs[i].Pid # hs[j].Pid

\* the lists of GetComputeRunningProcesses, a process being listed once
HolderLists ==
    {hs \in UNION {[1..n -> ProcessInfo] : n \in 0..Cardinality(Pids)} : DistinctPids(hs)}

FewHolderLists ==
    {<<>>,
     <<[Pid |-> 1, UsedGpuMemory |-> 1]>>,
     <<[Pid |-> 2, UsedGpuMemory |-> 2], [Pid |-> 1, UsedGpuMemory |-> 1]>>}

\* GetProcessUtilization(lastTS): samples of pids with utils, stamped after lastTS
Windows(lastTS, pids, utils) ==
    LET fresh == {x \in ProcessUtilizationSample :
                     x.Pid \in pids /\ x.SmUtil \in utils /\ x.TimeStamp > lastTS}
    IN  UNION {[1..n -> fresh] : n \in WindowLens}

\* DeviceGetHandleByIndex failed: nothing else is asked
NoHandle ==
    [handle |-> FALSE, procsRet |-> "NOT_ASKED", procs |-> <<>>,
     utilRet |-> "NOT_ASKED", utilSamples |-> <<>>]

\* GetComputeRunningProcesses failed or listed nothing: utilization is not asked
NoProcs(ret) ==
    [handle |-> TRUE, procsRet |-> ret, procs |-> <<>>,
     utilRet |-> "NOT_ASKED", utilSamples |-> <<>>]

\* both queries were made
Asked(hs, ret, w) ==
    [handle |-> TRUE, procsRet |-> "SUCCESS", procs |-> hs,
     utilRet |-> ret, utilSamples |-> w]

\* what the driver can answer for a device whose mark is lastTS
Answers(lastTS, lists, pids, utils) ==
    {NoHandle, NoProcs("ERROR")}
    \cup {NoProcs("SUCCESS") : hs \in lists \cap {<<>>}}
    \cup {Asked(hs, ret, <<>>) : hs \in lists \ {<<>>}, ret \in {"NOT_FOUND", "ERROR"}}
    \cup {Asked(hs, "SUCCESS", w) : hs \in lists \ {<<>>}, w \in Windows(lastTS, pids, utils)}

FewAnswers(lastTS) == Answers(lastTS, FewHolderLists, {1}, {50})

AllAnswers(lastTS) == Answers(lastTS, HolderLists, Pids, SmUtils) \ {NoHandle}

\* what the driver answers in the cycles of poll: device 0 has up to two
\* processes and at most one new sample, device 1 has no process or no handle
PollAnswers(gpuIndex, lastTS) ==
    IF gpuIndex = 0
    THEN {NoProcs("SUCCESS")}
         \cup {Asked(hs, "NOT_FOUND", <<>>) : hs \in FewHolderLists \ {<<>>}}
         \cup {Asked(hs, "SUCCESS", <<[Pid |-> 1, SmUtil |-> 50, TimeStamp |-> ts]>>) :
                  hs \in FewHolderLists \ {<<>>}, ts \in {lastTS + 1} \cap Stamps}
    ELSE {NoHandle, NoProcs("SUCCESS")}

\* snap.Devices: the devices whose handle was obtained, from device i on
RECURSIVE SnapDevices(_, _)
SnapDevices(ans, i) ==
    IF i \notin DOMAIN ans
    THEN <<>>
    ELSE (IF ans[i].handle THEN <<i>> ELSE <<>>) \o SnapDevices(ans, i + 1)

\* strings are sequences of character codes
NUL == 0
unknown == <<117, 110, 107, 110, 111, 119, 110>>

IsSpace(r) == r \in {9, 10, 11, 12, 13, 32}

\* strings.TrimSpace
RECURSIVE TrimSpace(_)
TrimSpace(str) ==
    IF str = <<>> THEN str
    ELSE IF IsSpace(Head(str)) THEN TrimSpace(Tail(str))
    ELSE IF IsSpace(str[Len(str)]) THEN TrimSpace(SubSeq(str, 1, Len(str) - 1))
    ELSE str

\* strings.Map dropping the control characters
StripControl(str) == SelectSeq(str, LAMBDA r : ~(r < 32 \/ r = 127))

\* readProcessName: file is what reading /proc/<pid>/comm gives
readProcessName(file) ==
    IF file.err
    THEN unknown
    ELSE LET Cut(name) == IF Len(name) > 64 THEN SubSeq(name, 1, 64) ELSE name
             OrUnknown(name) == IF name = <<>> THEN unknown ELSE name
         IN  OrUnknown(Cut(StripControl(TrimSpace(file.data))))

\* the contents of /proc/<pid>/comm: "p\n", "q\x00\n", or unreadable
CommFiles ==
    {(1 :> [err |-> FALSE, data |-> <<112, 10>>])
        @@ (2 :> [err |-> FALSE, data |-> <<112, 10>>]),
     (1 :> [err |-> FALSE, data |-> <<113, NUL, 10>>])
        @@ (2 :> [err |-> TRUE, data |-> <<>>])}

\* snap.ProcessNames
ProcessNames(procs, comm) ==
    [pid \in {procs[i].PID : i \in 1..Len(procs)} |-> readProcessName(comm[pid])]

\* ProcessIdleState.ProcessName: snap.ProcessNames[p.PID]
WithNames(res, names) ==
    [i \in 1..Len(res) |-> [ProcessName |-> names[res[i].PID]] @@ res[i]]

\* --------------------------------------------------- Exporter.UpdateMetrics
\* strconv.Itoa and strconv.FormatUint(n, 10)
RECURSIVE Itoa(_)
Itoa(n) == IF n < 10 THEN <<48 + n>> ELSE Itoa(n \div 10) \o <<48 + (n % 10)>>

\* strings.SplitN
RECURSIVE SplitN(_, _, _)
SplitN(str, sep, n) ==
    IF n = 1 \/ \A i \in 1..Len(str) : str[i] # sep
    THEN <<str>>
    ELSE LET i == CHOOSE i \in 1..Len(str) :
                      str[i] = sep /\ \A j \in 1..(i - 1) : str[j] # sep
         IN  <<SubSeq(str, 1, i - 1)>>
                 \o SplitN(SubSeq(str, i + 1, Len(str)), sep, n - 1)

\* labels and key of a view in the loop over the states
labels(ps) ==
    [gpu |-> Itoa(ps.GPU), pid |-> Itoa(ps.PID), process |-> ps.ProcessName]

key(ps) == Itoa(ps.GPU) \o <<NUL>> \o Itoa(ps.PID) \o <<NUL>> \o ps.ProcessName

\* GaugeVec.With(l).Set(v)
GaugeSet(g, l, v) == (l :> v) @@ g

\* GaugeVec.Delete of each label set in ls
GaugeDelete(g, ls) == [l \in DOMAIN g \ ls |-> g[l]]

\* the loop over the states, from view i on: the four per-process gauges
RECURSIVE SetLoop(_, _, _)
SetLoop(e, vs, i) ==
    IF i > Len(vs)
    THEN e
    ELSE SetLoop([e EXCEPT
                     !.processComputeUtil = GaugeSet(@, labels(vs[i]), vs[i].SmUtil),
                     !.processMemUsed = GaugeSet(@, labels(vs[i]), vs[i].UsedMemory),
                     !.processIdleSecs = GaugeSet(@, labels(vs[i]), vs[i].IdleDuration),
                     !.processIdleMem = GaugeSet(@, labels(vs[i]), vs[i].IdleMemory)],
                 vs, i + 1)

currentKeys(vs) == {key(vs[i]) : i \in 1..Len(vs)}

\* variant: the held memory is added up, idle or not
RECURSIVE idleMemByGPU_HeldMemory(_, _, _)
idleMemByGPU_HeldMemory(vs, i, m) ==
    IF i > Len(vs)
    THEN m
    ELSE idleMemByGPU_HeldMemory(vs, i + 1,
             (vs[i].GPU :> (IF vs[i].GPU \in DOMAIN m THEN m[vs[i].GPU] ELSE 0)
                           + vs[i].UsedMemory) @@ m)

\* idleMemByGPU[ps.GPU] += ps.IdleMemory, from view i on
RECURSIVE idleMemByGPU(_, _, _)
idleMemByGPU(vs, i, m) ==
    IF i > Len(vs)
    THEN m
    ELSE idleMemByGPU(vs, i + 1,
             (vs[i].GPU :> (IF vs[i].GPU \in DOMAIN m THEN m[vs[i].GPU] ELSE 0)
                           + vs[i].IdleMemory) @@ m)

\* the loop over snap.Devices that sets idleMemTotal, from device i on
RECURSIVE AggregateLoop(_, _, _, _)
AggregateLoop(g, devices, byGPU, i) ==
    IF i > Len(devices)
    THEN g
    ELSE AggregateLoop(GaugeSet(g, Itoa(devices[i]),
                                IF devices[i] \in DOMAIN byGPU
                                THEN byGPU[devices[i]] ELSE 0),
                       devices, byGPU, i + 1)

\* variant: a previous key counts as current when its gpu and pid are current
StaleLabels_ByPid(prev, cur) ==
    LET Parts(k) == SplitN(k, NUL, 3)
        Ids(k) == <<Parts(k)[1], Parts(k)[2]>>
    IN  {[gpu |-> Parts(k)[1], pid |-> Parts(k)[2], process |-> Parts(k)[3]] :
            k \in {x \in prev : Ids(x) \notin {Ids(c) : c \in cur}
                                /\ Len(Parts(x)) = 3}}

\* the label sets that the stale series cleanup deletes
StaleLabels(prev, cur) ==
    LET Parts(k) == SplitN(k, NUL, 3)
    IN  {[gpu |-> Parts(k)[1], pid |-> Parts(k)[2], process |-> Parts(k)[3]] :
            k \in {x \in prev : x \notin cur /\ Len(Parts(x)) = 3}}

\* Exporter.UpdateMetrics(snap, states): the exporter's fields afterwards
UpdateMetrics(e, devices, vs) ==
    LET Cleanup(looped, gone) ==
            [processComputeUtil |-> GaugeDelete(looped.processComputeUtil, gone),
             processMemUsed |-> GaugeDelete(looped.processMemUsed, gone),
             processIdleSecs |-> GaugeDelete(looped.processIdleSecs, gone),
             processIdleMem |-> GaugeDelete(looped.processIdleMem, gone),
             idleMemTotal |-> AggregateLoop(e.idleMemTotal, devices,
                                            idleMemByGPU(vs, 1, <<>>), 1),
             prevProcessKeys |-> currentKeys(vs)]
    IN  Cleanup(SetLoop(e, vs, 1), StaleLabels(e.prevProcessKeys, currentKeys(vs)))

\* ---------------------------------------------------------------------- poll
\* poll after Collect has returned a snapshot
RunCycle(got, devices, comm, t, tbl, e) ==
    LET Publish(upd, vs) ==
            [ran |-> TRUE, lastSampleTime |-> got.lastSampleTime, snap |-> got.snap,
             states |-> upd.states, results |-> upd.results, views |-> vs,
             exporter |-> UpdateMetrics(e, devices, vs)]
        Track(upd) ==
            Publish(upd, WithNames(upd.results,
                                   ProcessNames(got.snap.Processes, comm)))
    IN  Track(TrackerUpdate(tbl, got.snap.Processes, t))

\* poll after Collect has returned an error
SkipCycle(got) ==
    [ran |-> FALSE, lastSampleTime |-> got.lastSampleTime, snap |-> got.snap]

\* variant: a failed collection is handled as an empty snapshot
poll_UpdatesOnError(countOK, ans, comm, t, tbl, lst, e) ==
    LET Then(got) == RunCycle(got, IF got.snap.ok THEN SnapDevices(ans, 0) ELSE <<>>,
                              comm, t, tbl, e)
    IN  Then(CollectorCollect(countOK, ans, lst))

\* poll(coll, tracker, prom)
poll(countOK, ans, comm, t, tbl, lst, e) ==
    LET Then(got) == IF ~got.snap.ok
                     THEN SkipCycle(got)
                     ELSE RunCycle(got, SnapDevices(ans, 0), comm, t, tbl, e)
    IN  Then(CollectorCollect(countOK, ans, lst))

\* ---------------------------------------------------------------------- main
\* the objects that poll reads and writes: the collector's marks, the
\* tracker's state table and the gauges
pollTouches == {"lastSampleTime", "states", "gauges"}

\* variant: the handler of /metrics runs a collection cycle of its own
handlerTouches_Collects == {"lastSampleTime", "states", "gauges"}

\* promhttp.Handler() gathers from the registry: it reads the gauges
handlerTouches == {"gauges"}

\* variant: ticker.C starts poll in a goroutine of its own
AfterTick_Spawns == "select"

\* case <-ticker.C: poll is called in the polling goroutine, which is then
\* inside poll
AfterTick == "poll"

\* errgroup: the first error returned is kept
GroupErr(first, err) == IF first = "nil" THEN err ELSE first

\* variant: the goroutines run in a group without a context of its own
GroupCancels_Never(err) == FALSE

\* errgroup.WithContext: a goroutine that returns an error cancels gctx
GroupCancels(err) == err # "nil"

\* g.Wait() has returned err: log.Fatalf unless err is nil or context.Canceled
ExitOf(err) == IF err # "nil" /\ err # "Canceled" THEN "fatal" ELSE "normal"

\* what the driver answers in the cycles of main: one idle process on device 0
MainAnswers ==
    {(0 :> Asked(<<[Pid |-> 1, UsedGpuMemory |-> 1]>>, "NOT_FOUND", <<>>))
        @@ (1 :> NoHandle)}

\* ------------------------------------------------------------------ history
\* The specifications differ in the history they keep next to the tracker:
\* Spec keeps none, SpecTrail the trail, SpecGap the gaps, SpecEvict evicted,
\* SpecSeen seenAt.  SpecRepeat keeps none and feeds Update any list of samples.
\* SpecTwin runs a second tracker next to the first, SpecScaled one that is
\* fed other magnitudes of utilization.
\*
\* SpecTrail: the trail of a tracked key records when it was last in a batch
\* (at), whether that sample showed no compute (zero), whether the key was
\* untracked until then (new), and zero/new of the observation before
\* (prev, <<>> when there is none).
Observation(tbl, p) ==
    [zero |-> (p.SmUtil = 0), new |-> (SampleKey(p) \notin DOMAIN tbl)]

TrailAfter(tbl, tbl2, tr, ps, t) ==
    [k \in DOMAIN tbl2 |->
        IF k \in SampleKeys(ps)
        THEN [at |-> t,
              last |-> Observation(tbl, SampleOf(ps, k)),
              prev |-> IF k \in DOMAIN tbl THEN <<tr[k].last>> ELSE <<>>]
        ELSE tr[k]]

\* SpecGap: per tracked key, when it was last in a batch (at), whether the
\* view returned then showed it idle for a duration of 0 (fresh), and
\* whether the cycle just before that one had no sample of the key although
\* it was tracked (missed).
ViewOf(ps, res, k) == res[CHOOSE i \in 1..Len(ps) : SampleKey(ps[i]) = k]

GapsAfter(tbl, tbl2, gp, lastps, ps, res, t) ==
    [k \in DOMAIN tbl2 |->
        IF k \in SampleKeys(ps)
        THEN [at |-> t,
              fresh |-> ViewOf(ps, res, k).IsIdle /\ ViewOf(ps, res, k).IdleDuration = 0,
              missed |-> k \in DOMAIN tbl /\ k \notin SampleKeys(lastps)]
        ELSE gp[k]]

\* SpecEvict: a key enters when the cleanup loop deletes it and leaves when
\* it is in a batch while tracked, so it stays through its re-creation.
EvictedAfter(tbl, tbl2, ev, ps) ==
    (ev \ {k \in SampleKeys(ps) : k \in DOMAIN tbl}) \cup (DOMAIN tbl \ DOMAIN tbl2)

\* SpecSeen: per tracked key, the timestamps of the cycles that had a sample
\* of it since it was created.
SeenAfter(tbl, tbl2, sa, ps, t) ==
    [k \in DOMAIN tbl2 |->
        IF k \in SampleKeys(ps)
        THEN (IF k \in DOMAIN tbl THEN sa[k] ELSE {}) \cup {t}
        ELSE sa[k]]

\* SpecObs: per tracked key, the timestamp of the latest cycle that had a
\* sample of it (seen) and of the latest that had one with utilization > 0
\* (active, ZeroTime when there has been none) since its entry was created.
ObsAfter(tbl, tbl2, lo, ps, t) ==
    [k \in DOMAIN tbl2 |->
        IF k \in SampleKeys(ps)
        THEN [seen |-> t,
              active |-> IF SampleOf(ps, k).SmUtil > 0 THEN t
                         ELSE IF k \in DOMAIN tbl THEN lo[k].active
                         ELSE ZeroTime]
        ELSE lo[k]]

\* SpecConsume: per device, the utilization samples that the driver has
\* returned to collectProcesses in the cycles so far.
ConsumedAfter(cs, ans) ==
    [d \in DOMAIN cs |->
        cs[d] \cup (IF d \in DOMAIN ans
                    THEN {ans[d].utilSamples[i] : i \in 1..Len(ans[d].utilSamples)}
                    ELSE {})]

\* ------------------------------------------------------------ specification
\* NewTracker: an empty table; the clock is past ZeroTime
Init ==
    /\ states = <<>>
    /\ now = 1
    /\ batch = <<>>
    /\ results = <<>>
    /\ trail = <<>>
    /\ gaps = <<>>
    /\ evicted = {}
    /\ seenAt = <<>>
    /\ twin = NoTwin
    /\ lastObs = <<>>
    /\ lastSampleTime = <<>>
    /\ nvml = <<>>
    /\ snap = NoSnapshot
    /\ consumed = [d \in GPUs |-> {}]
    /\ processComputeUtil = <<>>
    /\ processMemUsed = <<>>
    /\ processIdleSecs = <<>>
    /\ processIdleMem = <<>>
    /\ idleMemTotal = <<>>
    /\ prevProcessKeys = {}
    /\ views = <<>>
    /\ pc = [poller |-> "start", http |-> "select", listener |-> "serving",
             signal |-> "wait"]
    /\ ctxDone = FALSE
    /\ gctxDone = FALSE
    /\ tick = FALSE
    /\ sigCh = "none"
    /\ errCh = FALSE
    /\ firstErr = "nil"
    /\ polling = 0
    /\ access = {}
    /\ exit = "running"

\* one polling cycle: the snapshot is stamped dt after the previous one
Update(ps, dt) ==
    /\ now + dt <= MaxTime
    /\ \E out \in {TrackerUpdate(states, ps, now + dt)} :
           /\ now' = now + dt
           /\ batch' = ps
           /\ states' = out.states
           /\ results' = out.results

Poll(ps, dt) ==
    /\ Update(ps, dt)
    /\ UNCHANGED <<trail, gaps, evicted, seenAt, twin, lastObs>>
    /\ UNCHANGED collectorVars
    /\ UNCHANGED otherVars

PollTrail(ps, dt) ==
    /\ Update(ps, dt)
    /\ trail' = TrailAfter(states, states', trail, ps, now')
    /\ UNCHANGED <<gaps, evicted, seenAt, twin, lastObs>>
    /\ UNCHANGED collectorVars
    /\ UNCHANGED otherVars

PollGap(ps, dt) ==
    /\ Update(ps, dt)
    /\ gaps' = GapsAfter(states, states', gaps, batch, ps, results', now')
    /\ UNCHANGED <<trail, evicted, seenAt, twin, lastObs>>
    /\ UNCHANGED collectorVars
    /\ UNCHANGED otherVars

PollEvict(ps, dt) ==
    /\ Update(ps, dt)
    /\ evicted' = EvictedAfter(states, states', evicted, ps)
    /\ UNCHANGED <<trail, gaps, seenAt, twin, lastObs>>
    /\ UNCHANGED collectorVars
    /\ UNCHANGED otherVars

PollSeen(ps, dt) ==
    /\ Update(ps, dt)
    /\ seenAt' = SeenAfter(states, states', seenAt, ps, now')
    /\ UNCHANGED <<trail, gaps, evicted, twin, lastObs>>
    /\ UNCHANGED collectorVars
    /\ UNCHANGED otherVars

\* the twin runs Update on the same snapshot, later by the wall clock and
\* with its own iteration order of the states map
PollTwin(ps, dt) ==
    /\ Update(ps, dt)
    /\ \E wall \in {now + dt + 1},
          order \in KeyOrders(DOMAIN twin.states \cup seen(ps)) :
           \E out \in {UpdateOnce(twin.states, ps, now + dt, wall, order)} :
               twin' = [states |-> out.states, results |-> out.results,
                        order |-> order]
    /\ UNCHANGED <<trail, gaps, evicted, seenAt, lastObs>>
    /\ UNCHANGED collectorVars
    /\ UNCHANGED otherVars

Next == \E ps \in Batches, dt \in Steps : Poll(ps, dt)

NextTrail == \E ps \in Batches, dt \in Steps : PollTrail(ps, dt)

NextGap == \E ps \in Batches, dt \in Steps : PollGap(ps, dt)

NextEvict == \E ps \in Batches, dt \in Steps : PollEvict(ps, dt)

NextSeen == \E ps \in Batches, dt \in Steps : PollSeen(ps, dt)

PollObs(ps, dt) ==
    /\ Update(ps, dt)
    /\ lastObs' = ObsAfter(states, states', lastObs, ps, now')
    /\ UNCHANGED <<trail, gaps, evicted, seenAt, twin>>
    /\ UNCHANGED collectorVars
    /\ UNCHANGED otherVars

\* the twin runs Update on the snapshot with the utilization rescaled
PollScaled(ps, dt) ==
    /\ Update(ps, dt)
    /\ \E q \in Rescalings(ps) :
           \E out \in {TrackerUpdate(twin.states, q, now + dt)} :
               twin' = [states |-> out.states, results |-> out.results,
                        order |-> <<>>]
    /\ UNCHANGED <<trail, gaps, evicted, seenAt, lastObs>>
    /\ UNCHANGED collectorVars
    /\ UNCHANGED otherVars

NextScaled == \E ps \in Batches, dt \in Steps : PollScaled(ps, dt)

NextObs == \E ps \in Batches, dt \in Steps : PollObs(ps, dt)

NextTwin == \E ps \in Batches, dt \in Steps : PollTwin(ps, dt)

NextRepeat == \E ps \in RepeatBatches, dt \in Steps : Poll(ps, dt)

Spec == Init /\ [][Next]_vars

SpecTrail == Init /\ [][NextTrail]_vars

SpecGap == Init /\ [][NextGap]_vars

SpecEvict == Init /\ [][NextEvict]_vars

\* the batches in which every process holds the same amount of memory
LiveBatches == {ps \in Batches : \A i \in 1..Len(ps) : ps[i].UsedMemory = 1}

NextLive == \E ps \in LiveBatches, dt \in Steps : PollEvict(ps, dt)

\* a cycle whose timestamp is later than that of the cycle before
NextAdvance == \E ps \in LiveBatches, dt \in Steps \ {0} : PollEvict(ps, dt)

\* the ticker keeps the polling loop calling Update, and the clock that
\* stamps the snapshots moves on
SpecLive == Init /\ [][NextLive]_vars /\ WF_vars(NextAdvance)

SpecSeen == Init /\ [][NextSeen]_vars

SpecScaled == Init /\ [][NextScaled]_vars

SpecObs == Init /\ [][NextObs]_vars

SpecTwin == Init /\ [][NextTwin]_vars

SpecRepeat == Init /\ [][NextRepeat]_vars

\* one call of Collector.Collect with every device answering
Collect(ans) ==
    /\ \E out \in {CollectorCollect(TRUE, ans, lastSampleTime)} :
           /\ lastSampleTime' = out.lastSampleTime
           /\ snap' = out.snap
    /\ nvml' = ans
    /\ UNCHANGED trackerVars
    /\ UNCHANGED otherVars

\* one call of Collector.Collect in which DeviceGetCount fails
CollectFails ==
    /\ \E out \in {CollectorCollect(FALSE, <<>>, lastSampleTime)} :
           /\ lastSampleTime' = out.lastSampleTime
           /\ snap' = out.snap
    /\ nvml' = <<>>
    /\ UNCHANGED trackerVars
    /\ UNCHANGED otherVars

\* Collect, with the samples that the driver returned added to consumed
CollectConsume(ans) ==
    /\ \E out \in {CollectorCollect(TRUE, ans, lastSampleTime)} :
           /\ lastSampleTime' = out.lastSampleTime
           /\ snap' = out.snap
    /\ nvml' = ans
    /\ consumed' = ConsumedAfter(consumed, ans)
    /\ UNCHANGED trackerVars
    /\ UNCHANGED exporterVars
    /\ UNCHANGED mainVars

NextConsume ==
    \/ \E a0 \in FewAnswers(LastTS(lastSampleTime, 0)),
          a1 \in FewAnswers(LastTS(lastSampleTime, 1)) :
           CollectConsume((0 :> a0) @@ (1 :> a1))
    \/ CollectFails

SpecConsume == Init /\ [][NextConsume]_vars

\* the exporter's fields
Exporter ==
    [processComputeUtil |-> processComputeUtil, processMemUsed |-> processMemUsed,
     processIdleSecs |-> processIdleSecs, processIdleMem |-> processIdleMem,
     idleMemTotal |-> idleMemTotal, prevProcessKeys |-> prevProcessKeys]

\* one tick of the polling loop, dt after the tick before
PollCycle(countOK, ans, comm, dt) ==
    /\ now + dt <= MaxTime
    /\ now' = now + dt
    /\ nvml' = ans
    /\ \E out \in {poll(countOK, ans, comm, now + dt, states, lastSampleTime, Exporter)} :
           /\ lastSampleTime' = out.lastSampleTime
           /\ snap' = out.snap
           /\ IF out.ran
              THEN /\ batch' = out.snap.Processes
                   /\ states' = out.states
                   /\ results' = out.results
                   /\ views' = out.views
                   /\ processComputeUtil' = out.exporter.processComputeUtil
                   /\ processMemUsed' = out.exporter.processMemUsed
                   /\ processIdleSecs' = out.exporter.processIdleSecs
                   /\ processIdleMem' = out.exporter.processIdleMem
                   /\ idleMemTotal' = out.exporter.idleMemTotal
                   /\ prevProcessKeys' = out.exporter.prevProcessKeys
              ELSE UNCHANGED <<batch, states, results, exporterVars>>
    /\ UNCHANGED <<trail, gaps, evicted, seenAt, twin, lastObs, consumed>>

PollSucceeds ==
    \E a0 \in PollAnswers(0, LastTS(lastSampleTime, 0)),
       a1 \in PollAnswers(1, LastTS(lastSampleTime, 1)),
       comm \in CommFiles, dt \in Steps :
        PollCycle(TRUE, (0 :> a0) @@ (1 :> a1), comm, dt) /\ UNCHANGED mainVars

PollFails ==
    \E comm \in CommFiles, dt \in Steps :
        PollCycle(FALSE, <<>>, comm, dt) /\ UNCHANGED mainVars

NextPoll == PollSucceeds \/ PollFails

SpecPoll == Init /\ [][NextPoll]_vars

\* ---- main: the goroutines
\* a goroutine of the errgroup returns err (never nil)
Return(g, err) ==
    /\ pc' = [pc EXCEPT ![g] = "returned"]
    /\ firstErr' = GroupErr(firstErr, err)
    /\ gctxDone' = (gctxDone \/ GroupCancels(err))

\* the polling goroutine: "Run once immediately" enters poll
PollFirst ==
    /\ exit = "running"
    /\ pc.poller = "start"
    /\ pc' = [pc EXCEPT !.poller = "poll"]
    /\ polling' = polling + 1
    /\ UNCHANGED <<ctxDone, gctxDone, tick, sigCh, errCh, firstErr, access, exit>>
    /\ UNCHANGED <<trackerVars, collectorVars, consumed, exporterVars>>

\* a poll in progress runs its cycle and returns
PollReturns ==
    /\ exit = "running"
    /\ polling > 0
    /\ \E ans \in MainAnswers, comm \in CommFiles, dt \in Steps, countOK \in BOOLEAN :
           PollCycle(countOK, IF countOK THEN ans ELSE <<>>, comm, dt)
    /\ polling' = polling - 1
    /\ pc' = [pc EXCEPT !.poller = IF @ = "poll" THEN "select" ELSE @]
    /\ access' = access \cup {<<"poller", o>> : o \in pollTouches}
    /\ UNCHANGED <<ctxDone, gctxDone, tick, sigCh, errCh, firstErr, exit>>

\* the ticker fires; a tick is dropped while ticker.C still holds one
Tick ==
    /\ exit = "running"
    /\ pc.poller # "returned"
    /\ ~tick
    /\ tick' = TRUE
    /\ UNCHANGED <<pc, ctxDone, gctxDone, sigCh, errCh, firstErr, polling, access, exit>>
    /\ UNCHANGED <<trackerVars, collectorVars, consumed, exporterVars>>

\* select: case <-ticker.C
SelectTick ==
    /\ exit = "running"
    /\ pc.poller = "select"
    /\ tick
    /\ tick' = FALSE
    /\ pc' = [pc EXCEPT !.poller = AfterTick]
    /\ polling' = polling + 1
    /\ UNCHANGED <<ctxDone, gctxDone, sigCh, errCh, firstErr, access, exit>>
    /\ UNCHANGED <<trackerVars, collectorVars, consumed, exporterVars>>

\* select: case <-gctx.Done(): return gctx.Err()
SelectDone ==
    /\ exit = "running"
    /\ pc.poller = "select"
    /\ gctxDone
    /\ Return("poller", "Canceled")
    /\ UNCHANGED <<ctxDone, tick, sigCh, errCh, polling, access, exit>>
    /\ UNCHANGED <<trackerVars, collectorVars, consumed, exporterVars>>

\* SIGINT or SIGTERM is delivered to sigCh
Signal ==
    /\ exit = "running"
    /\ sigCh = "none"
    /\ sigCh' = "pending"
    /\ UNCHANGED <<pc, ctxDone, gctxDone, tick, errCh, firstErr, polling, access, exit>>
    /\ UNCHANGED <<trackerVars, collectorVars, consumed, exporterVars>>

\* the signal goroutine: sig := <-sigCh; cancel()
HandleSignal ==
    /\ exit = "running"
    /\ pc.signal = "wait"
    /\ sigCh = "pending"
    /\ sigCh' = "taken"
    /\ pc' = [pc EXCEPT !.signal = "done"]
    /\ ctxDone' = TRUE
    /\ gctxDone' = TRUE
    /\ UNCHANGED <<tick, errCh, firstErr, polling, access, exit>>
    /\ UNCHANGED <<trackerVars, collectorVars, consumed, exporterVars>>

\* ListenAndServe returns an error other than ErrServerClosed
ListenFails ==
    /\ exit = "running"
    /\ pc.listener = "serving"
    /\ pc' = [pc EXCEPT !.listener = "failed"]
    /\ errCh' = TRUE
    /\ UNCHANGED <<ctxDone, gctxDone, tick, sigCh, firstErr, polling, access, exit>>
    /\ UNCHANGED <<trackerVars, collectorVars, consumed, exporterVars>>

\* a request for /metrics is served
Scrape ==
    /\ exit = "running"
    /\ pc.listener = "serving"
    /\ access' = access \cup {<<"http", o>> : o \in handlerTouches}
    /\ UNCHANGED <<pc, ctxDone, gctxDone, tick, sigCh, errCh, firstErr, polling, exit>>
    /\ UNCHANGED <<trackerVars, collectorVars, consumed, exporterVars>>

\* the HTTP goroutine, select: case err := <-errCh: return err
HttpErr ==
    /\ exit = "running"
    /\ pc.http = "select"
    /\ errCh
    /\ errCh' = FALSE
    /\ Return("http", "http server error")
    /\ UNCHANGED <<ctxDone, tick, sigCh, polling, access, exit>>
    /\ UNCHANGED <<trackerVars, collectorVars, consumed, exporterVars>>

\* the HTTP goroutine, select: case <-gctx.Done(): srv.Shutdown is called
HttpDone ==
    /\ exit = "running"
    /\ pc.http = "select"
    /\ gctxDone
    /\ pc' = [pc EXCEPT !.http = "shutdown",
                        !.listener = IF @ = "serving" THEN "closed" ELSE @]
    /\ UNCHANGED <<ctxDone, gctxDone, tick, sigCh, errCh, firstErr, polling, access, exit>>
    /\ UNCHANGED <<trackerVars, collectorVars, consumed, exporterVars>>

\* srv.Shutdown returns: nil, or an error when the 5 s are over
ShutdownReturns ==
    /\ exit = "running"
    /\ pc.http = "shutdown"
    /\ \E err \in {"Canceled", "http server shutdown error"} : Return("http", err)
    /\ UNCHANGED <<ctxDone, tick, sigCh, errCh, polling, access, exit>>
    /\ UNCHANGED <<trackerVars, collectorVars, consumed, exporterVars>>

\* g.Wait() returns when both goroutines have; main ends
Wait ==
    /\ exit = "running"
    /\ pc.poller = "returned"
    /\ pc.http = "returned"
    /\ exit' = ExitOf(firstErr)
    /\ UNCHANGED <<pc, ctxDone, gctxDone, tick, sigCh, errCh, firstErr, polling, access>>
    /\ UNCHANGED <<trackerVars, collectorVars, consumed, exporterVars>>

NextMain ==
    \/ PollFirst
    \/ PollReturns
    \/ Tick
    \/ SelectTick
    \/ SelectDone
    \/ Signal
    \/ HandleSignal
    \/ ListenFails
    \/ Scrape
    \/ HttpErr
    \/ HttpDone
    \/ ShutdownReturns
    \/ Wait

SpecMain == Init /\ [][NextMain]_vars

\* every goroutine that can run does; a poll, a call of Shutdown and g.Wait
\* return; a select with several ready cases picks among them at random, so
\* the case gctx.Done() is not passed over for ever
SpecMainLive ==
    /\ Init
    /\ [][NextMain]_vars
    /\ WF_vars(HandleSignal)
    /\ WF_vars(PollFirst)
    /\ WF_vars(PollReturns)
    /\ SF_vars(SelectDone)
    /\ WF_vars(HttpErr \/ HttpDone)
    /\ WF_vars(ShutdownReturns)
    /\ WF_vars(Wait)

NextCollect ==
    \/ \E a0 \in FewAnswers(LastTS(lastSampleTime, 0)),
          a1 \in FewAnswers(LastTS(lastSampleTime, 1)) :
           Collect((0 :> a0) @@ (1 :> a1))
    \/ CollectFails

SpecCollect == Init /\ [][NextCollect]_vars

\* collectProcesses on its own: one device, any mark, any answer of the driver
InitMerge ==
    /\ states = <<>>
    /\ now = 1
    /\ batch = <<>>
    /\ results = <<>>
    /\ trail = <<>>
    /\ gaps = <<>>
    /\ evicted = {}
    /\ seenAt = <<>>
    /\ twin = NoTwin
    /\ lastObs = <<>>
    /\ \E d \in GPUs :
           /\ lastSampleTime \in {<<>>} \cup {d :> m : m \in Stamps}
           /\ nvml \in {d :> a : a \in AllAnswers(LastTS(lastSampleTime, d))}
    /\ snap = NoSnapshot
    /\ consumed = [d \in GPUs |-> {}]
    /\ processComputeUtil = <<>>
    /\ processMemUsed = <<>>
    /\ processIdleSecs = <<>>
    /\ processIdleMem = <<>>
    /\ idleMemTotal = <<>>
    /\ prevProcessKeys = {}
    /\ views = <<>>
    /\ pc = [poller |-> "start", http |-> "select", listener |-> "serving",
             signal |-> "wait"]
    /\ ctxDone = FALSE
    /\ gctxDone = FALSE
    /\ tick = FALSE
    /\ sigCh = "none"
    /\ errCh = FALSE
    /\ firstErr = "nil"
    /\ polling = 0
    /\ access = {}
    /\ exit = "running"

\* one call of collectProcesses for device d; snap holds what it returned
Merge(d) ==
    /\ \A i \in 1..Len(nvml[d].utilSamples) :
           nvml[d].utilSamples[i].TimeStamp > LastTS(lastSampleTime, d)
    /\ \E out \in {collectProcesses(d, nvml[d], lastSampleTime)} :
           /\ lastSampleTime' = out.lastSampleTime
           /\ snap' = [ok |-> TRUE, Processes |-> out.samples]
    /\ UNCHANGED nvml
    /\ UNCHANGED trackerVars
    /\ UNCHANGED otherVars

NextMerge == \E d \in DOMAIN nvml : Merge(d)

SpecMerge == InitMerge /\ [][NextMerge]_vars

TypeOK ==
    /\ DOMAIN states \subseteq Keys
    /\ now \in 1..MaxTime
    /\ batch \in Batches
    /\ Len(results) = Len(batch)

\* ------------------------------------------------------------------- claims
\* the state NewState leaves for a key created at t, as the claims put it
Fresh(st, t) ==
    /\ st.FirstSeenTime = t
    /\ st.LastSeenTime = t
    /\ st.LastActiveTime = t
    /\ st.IsIdle = FALSE

NotIdle(v) == v.IsIdle = FALSE /\ v.IdleDuration = 0 /\ v.IdleMemory = 0

\* C1 - first-observation grace: when Update processes a sample whose key is
\* not in the state table, the view of that sample is not idle, with idle
\* duration 0 and idle memory 0, whatever the utilization, and the state
\* created has FirstSeenTime = LastSeenTime = LastActiveTime = the cycle's
\* timestamp and IsIdle = FALSE.
C1_FirstObservationGrace ==
    [][\A i \in 1..Len(batch') :
          SampleKey(batch'[i]) \notin DOMAIN states
          => /\ NotIdle(results'[i])
             /\ SampleKey(batch'[i]) \in DOMAIN states'
             /\ Fresh(states'[SampleKey(batch'[i])], now')]_vars

\* a key seen for the first time, with utilization 0, and reported active
C1_Witness ==
    \E i \in 1..Len(batch) :
        /\ batch[i].SmUtil = 0
        /\ trail[SampleKey(batch[i])].last.new
        /\ NotIdle(results[i])
        /\ Fresh(states[SampleKey(batch[i])], now)

\* the key has been observed once, with utilization 0
OneStrike(tr) == tr.prev = <<>> /\ tr.last = [zero |-> TRUE, new |-> TRUE]

\* the key has been observed twice, with utilization 0 both times
TwoStrikes(tr) ==
    /\ tr.prev = <<[zero |-> TRUE, new |-> TRUE]>>
    /\ tr.last = [zero |-> TRUE, new |-> FALSE]

\* C2 - two strikes: a key first observed at t0 with utilization 0 and, still
\* tracked, observed at t1 > t0 with utilization 0 is idle at t1 with idle
\* duration 0; observed again at t2 > t1 with utilization 0 it is idle with
\* idle duration t2 - t1 and idle memory the memory of the t2 sample.
C2_TwoStrikes ==
    [][\A i \in 1..Len(batch') :
          LET p == batch'[i]
              k == SampleKey(p)
              v == results'[i]
          IN  (k \in DOMAIN states /\ p.SmUtil = 0 /\ now' > trail[k].at)
              => /\ OneStrike(trail[k])
                    => v.IsIdle /\ v.IdleDuration = 0
                 /\ TwoStrikes(trail[k])
                    => /\ v.IsIdle
                       /\ v.IdleDuration = now' - trail[k].at
                       /\ v.IdleMemory = p.UsedMemory]_vars

\* the third cycle: only samples without compute since the key was created,
\* at three different times, and a view that reports the time since the second
C2_Witness ==
    \E i \in 1..Len(batch) :
        LET k == SampleKey(batch[i])
        IN  /\ trail[k].prev = <<[zero |-> TRUE, new |-> FALSE]>>
            /\ trail[k].last = [zero |-> TRUE, new |-> FALSE]
            /\ states[k].LastActiveTime = states[k].FirstSeenTime
            /\ states[k].FirstSeenTime < states[k].IdleSince
            /\ states[k].IdleSince < now
            /\ results[i].IsIdle
            /\ results[i].IdleDuration = now - states[k].IdleSince
            /\ results[i].IdleMemory = batch[i].UsedMemory

\* C3 - active clears idle: when a key whose state is idle has a sample with
\* utilization > 0, the view of that cycle is not idle, with idle duration 0
\* and idle memory 0, and the stored state is active, however long the key
\* had been idle.
C3_ActiveClearsIdle ==
    [][\A i \in 1..Len(batch') :
          LET k == SampleKey(batch'[i])
          IN  (k \in DOMAIN states /\ states[k].IsIdle /\ batch'[i].SmUtil > 0)
              => NotIdle(results'[i]) /\ ~states'[k].IsIdle]_vars

\* a key that was idle before this cycle (its previous sample, not its
\* first, showed no compute) and is reported active now
C3_Witness ==
    \E i \in 1..Len(batch) :
        LET k == SampleKey(batch[i])
        IN  /\ batch[i].SmUtil > 0
            /\ trail[k].prev = <<[zero |-> TRUE, new |-> FALSE]>>
            /\ states[k].IdleSince # ZeroTime
            /\ states[k].IdleSince < now
            /\ NotIdle(results[i])
            /\ ~states[k].IsIdle

\* C4 - derived output: in every view, not idle implies idle duration 0 and
\* idle memory 0; idle implies idle duration = cycle timestamp - IdleSince
\* of the key (never negative) and idle memory = memory of the sample.
C4_DerivedOutput ==
    \A i \in 1..Len(results) :
        LET v == results[i]
            k == <<v.GPU, v.PID>>
        IN  /\ ~v.IsIdle => v.IdleDuration = 0 /\ v.IdleMemory = 0
            /\ v.IsIdle => /\ k \in DOMAIN states
                           /\ v.IdleDuration = now - states[k].IdleSince
                           /\ v.IdleDuration >= 0
                           /\ v.IdleMemory = batch[i].UsedMemory

\* one cycle returns a view that has been idle for some time and a view
\* that is active although its key had been idle earlier
C4_Witness ==
    \E i, j \in 1..Len(results) :
        /\ results[i].IsIdle
        /\ results[i].IdleDuration > 0
        /\ ~results[j].IsIdle
        /\ states[<<results[j].GPU, results[j].PID>>].IdleSince # ZeroTime

C6_StaleRetention ==
    [][\A k \in DOMAIN states :
          (k \notin SampleKeys(batch') /\ now' - states[k].LastSeenTime <= staleTimeout)
          => /\ k \in DOMAIN states'
             /\ states'[k] = states[k]
             /\ \A i \in 1..Len(results') :
                    <<results'[i].GPU, results'[i].PID>> # k]_vars

\* the boundary: a key missed by a cycle exactly staleTimeout after it was
\* last seen, and still tracked
C6_Witness ==
    \E k \in DOMAIN states :
        /\ k \notin SampleKeys(batch)
        /\ now - states[k].LastSeenTime = staleTimeout
        /\ \A i \in 1..Len(results) : <<results[i].GPU, results[i].PID>> # k

\* C7 - eviction and re-grace: a tracked key that is not in the cycle's batch
\* while cycle timestamp - LastSeenTime > staleTimeout is removed from the
\* state table; it stays out while no batch holds it; and the first batch
\* that holds it again creates it anew (view not idle, idle duration 0, idle
\* memory 0, FirstSeenTime = that cycle's timestamp).
C7_EvictionAndRegrace ==
    [][\A k \in Keys :
          /\ (/\ k \in DOMAIN states
              /\ k \notin SampleKeys(batch')
              /\ now' - states[k].LastSeenTime > staleTimeout)
             => k \notin DOMAIN states' /\ k \in evicted'
          /\ (k \in evicted /\ k \notin DOMAIN states /\ k \notin SampleKeys(batch'))
             => k \notin DOMAIN states'
          /\ (k \in evicted /\ k \notin DOMAIN states /\ k \in SampleKeys(batch'))
             => /\ k \in DOMAIN states'
                /\ Fresh(states'[k], now')
                /\ NotIdle(ViewOf(batch', results', k))]_vars

\* a key that was deleted by the cleanup loop and is back, created anew in
\* this cycle and reported active although its sample shows no compute
C7_Witness ==
    \E i \in 1..Len(batch) :
        LET k == SampleKey(batch[i])
        IN  /\ k \in evicted
            /\ k \in DOMAIN states
            /\ Fresh(states[k], now)
            /\ batch[i].SmUtil = 0
            /\ NotIdle(results[i])

\* C8 - idle continuity across missed polls: a key whose last view, at t1,
\* showed it idle for a duration of 0, that was not in the batch of the
\* latest cycle and is still tracked, and that is in this cycle's batch with
\* utilization 0 is idle with idle duration = cycle timestamp - t1.
C8_IdleContinuity ==
    [][\A i \in 1..Len(batch') :
          LET k == SampleKey(batch'[i])
          IN  (/\ k \in DOMAIN states
               /\ gaps[k].fresh
               /\ k \notin SampleKeys(batch)
               /\ batch'[i].SmUtil = 0)
              => /\ results'[i].IsIdle
                 /\ results'[i].IdleDuration = now' - gaps[k].at]_vars

\* a key back after a cycle that missed it, idle since before that cycle
C8_Witness ==
    \E i \in 1..Len(batch) :
        LET k == SampleKey(batch[i])
        IN  /\ gaps[k].missed
            /\ batch[i].SmUtil = 0
            /\ results[i].IsIdle
            /\ results[i].IdleDuration > 0
            /\ results[i].IdleDuration = now - states[k].IdleSince

\* the part of a table, a batch and a result list that concerns key k
Only(tbl, k) == IF k \in DOMAIN tbl THEN k :> tbl[k] ELSE <<>>

OnlyKey(ps, k) ==
    LET Mine(p) == SampleKey(p) = k
    IN  SelectSeq(ps, Mine)

ViewsFor(res, k) ==
    LET Mine(v) == <<v.GPU, v.PID>> = k
    IN  SelectSeq(res, Mine)

\* C9 - independent keys: in every cycle the state and the views of a key
\* (d1, p) are those an Update would give that had only the state and the
\* samples of (d1, p), whether or not samples of (d2, p) are in the batch.
C9_IndependentKeys ==
    [][\A k \in Keys :
          LET Same(alone) == /\ Only(states', k) = alone.states
                             /\ ViewsFor(results', k) = alone.results
          IN  Same(TrackerUpdate(Only(states, k), OnlyKey(batch', k), now'))]_vars

\* one cycle in which the same PID is idle on one GPU and active on another
C9_Witness ==
    \E i, j \in 1..Len(results) :
        /\ results[i].PID = results[j].PID
        /\ results[i].GPU # results[j].GPU
        /\ results[i].IsIdle
        /\ results[i].IdleDuration > 0
        /\ ~results[j].IsIdle
        /\ batch[j].SmUtil > 0

\* C10 - output shape: Update returns one view per sample of the batch, in
\* batch order, with the sample's GPU, PID, memory and utilization; a
\* tracked key that is not in the batch has no view.
C10_OutputShape ==
    /\ Len(results) = Len(batch)
    /\ \A i \in 1..Len(batch) :
          /\ results[i].GPU = batch[i].GPU
          /\ results[i].PID = batch[i].PID
          /\ results[i].UsedMemory = batch[i].UsedMemory
          /\ results[i].SmUtil = batch[i].SmUtil
    /\ \A k \in DOMAIN states \ SampleKeys(batch) :
          \A i \in 1..Len(results) : <<results[i].GPU, results[i].PID>> # k

\* two views in batch order, the higher GPU index first, with different
\* memory and utilization
C10_Witness ==
    /\ Len(results) = 2
    /\ results[1].GPU > results[2].GPU
    /\ results[1].UsedMemory # results[2].UsedMemory
    /\ results[1].SmUtil # results[2].SmUtil
    /\ results[1].GPU = batch[1].GPU
    /\ results[2].SmUtil = batch[2].SmUtil

\* the largest utilization among the samples of pid in the window w, 0 when
\* w has no sample of pid
MaxUtilOf(w, pid) ==
    LET us == {w[i].SmUtil : i \in {j \in 1..Len(w) : w[j].Pid = pid}} \cup {0}
    IN  CHOOSE u \in us : \A v \in us : v <= u

\* C11 - sample merge: for a device whose memory-holder query succeeded,
\* collectProcesses returns exactly one sample per process of the
\* memory-holder list, in list order, for that device and pid, with
\* utilization the maximum over the pid's samples in the window and 0 when
\* the pid has none; a pid with utilization samples that is not in the list
\* has no sample.
C11_SampleMerge ==
    \A d \in DOMAIN nvml :
        (snap.ok /\ nvml[d].procsRet = "SUCCESS")
        => /\ Len(snap.Processes) = Len(nvml[d].procs)
           /\ \A i \in 1..Len(nvml[d].procs) :
                  /\ snap.Processes[i].GPU = d
                  /\ snap.Processes[i].PID = nvml[d].procs[i].Pid
                  /\ snap.Processes[i].SmUtil
                         = MaxUtilOf(nvml[d].utilSamples, nvml[d].procs[i].Pid)
           /\ \A i \in 1..Len(snap.Processes) :
                  \E j \in 1..Len(nvml[d].procs) :
                      nvml[d].procs[j].Pid = snap.Processes[i].PID

\* two processes hold memory: one has two samples, the higher first, and
\* gets the higher; the other has none and gets 0
C11_Witness ==
    \E d \in DOMAIN nvml :
        /\ snap.ok
        /\ Len(nvml[d].procs) = 2
        /\ Len(nvml[d].utilSamples) = 2
        /\ nvml[d].utilSamples[1].Pid = nvml[d].procs[1].Pid
        /\ nvml[d].utilSamples[2].Pid = nvml[d].procs[1].Pid
        /\ nvml[d].utilSamples[1].SmUtil > nvml[d].utilSamples[2].SmUtil
        /\ nvml[d].utilSamples[2].SmUtil > 0
        /\ snap.Processes[1].SmUtil = nvml[d].utilSamples[1].SmUtil
        /\ snap.Processes[2].SmUtil = 0

\* the answer a gave collectProcesses no utilization sample: the handle or
\* the memory-holder query failed, no process holds memory, the utilization
\* query failed or found nothing, or it returned an empty list
Unfed(a) ==
    \/ ~a.handle
    \/ a.procsRet # "SUCCESS"
    \/ Len(a.procs) = 0
    \/ a.utilRet # "SUCCESS"
    \/ Len(a.utilSamples) = 0

\* C12 - high-water mark monotonicity: in every collection cycle the
\* lastSampleTime of every device does not decrease, and it is unchanged for
\* a device whose cycle brought no utilization sample (no memory-holding
\* process, a failed query, or an empty window) and for every device when
\* the cycle fails as a whole.
C12_MarkMonotone ==
    [][\A d \in GPUs :
          /\ LastTS(lastSampleTime', d) >= LastTS(lastSampleTime, d)
          /\ (d \notin DOMAIN nvml' \/ Unfed(nvml'[d]))
             => LastTS(lastSampleTime', d) = LastTS(lastSampleTime, d)]_vars

\* a device whose mark was raised by an earlier cycle and kept by the last
\* one, in which a process held memory and the utilization query found nothing
C12_Witness ==
    \E d \in DOMAIN nvml :
        /\ Len(nvml[d].procs) > 0
        /\ nvml[d].utilRet = "NOT_FOUND"
        /\ LastTS(lastSampleTime, d) > 0

\* the latest timestamp among the samples of a window that is not empty
LatestOf(w) ==
    CHOOSE m \in {w[i].TimeStamp : i \in 1..Len(w)} :
        \A i \in 1..Len(w) : w[i].TimeStamp <= m

\* C13 - high-water mark advance: after a cycle in which the utilization
\* query of a device returned at least one sample, the lastSampleTime of
\* that device is the latest timestamp among the samples returned.
C13_MarkAdvance ==
    [][\A d \in DOMAIN nvml' :
          ~Unfed(nvml'[d])
          => LastTS(lastSampleTime', d) = LatestOf(nvml'[d].utilSamples)]_vars

\* a window whose latest sample comes first, and a mark equal to its stamp
C13_Witness ==
    \E d \in DOMAIN nvml :
        /\ Len(nvml[d].utilSamples) = 2
        /\ nvml[d].utilSamples[1].TimeStamp > nvml[d].utilSamples[2].TimeStamp
        /\ LastTS(lastSampleTime, d) = nvml[d].utilSamples[1].TimeStamp

\* the samples of device d in a list of samples
SamplesOf(ps, d) ==
    LET Mine(x) == x.GPU = d
    IN  SelectSeq(ps, Mine)

\* a query for the device failed: the handle lookup, the memory-holder
\* query, or the utilization query with a status other than NOT_FOUND
QueryFailed(a) ==
    \/ ~a.handle
    \/ a.procsRet = "ERROR"
    \/ a.utilRet = "ERROR"

\* C14 as claimed - in the snapshot of a cycle, a device one of whose
\* queries failed has no sample, and every other device has one sample per
\* process holding memory on it; so no sample with utilization 0 comes from
\* a failed utilization query.
C14_FailureDropsDevice ==
    snap.ok
    => \A d \in DOMAIN nvml :
           /\ QueryFailed(nvml[d]) => SamplesOf(snap.Processes, d) = <<>>
           /\ ~QueryFailed(nvml[d])
              => Len(SamplesOf(snap.Processes, d)) = Len(nvml[d].procs)

\* C15 - empty batch and frame: an Update with an empty batch returns no
\* view and only deletes the tracked keys whose LastSeenTime is more than
\* staleTimeout before the cycle's timestamp; in every Update a tracked key
\* that is not in the batch and is still tracked afterwards keeps its five
\* fields.
C15_EmptyBatchAndFrame ==
    [][/\ batch' = <<>>
          => /\ results' = <<>>
             /\ DOMAIN states'
                    = {k \in DOMAIN states : now' - states[k].LastSeenTime <= staleTimeout}
             /\ \A k \in DOMAIN states' : states'[k] = states[k]
       /\ \A k \in DOMAIN states \cap DOMAIN states' :
              k \notin SampleKeys(batch') => states'[k] = states[k]]_vars

\* after an empty batch: no view, and an idle key kept, last seen exactly
\* staleTimeout ago
C15_Witness ==
    /\ batch = <<>>
    /\ results = <<>>
    /\ \E k \in DOMAIN states :
           /\ states[k].IsIdle
           /\ now - states[k].LastSeenTime = staleTimeout

\* C16 - state invariant: every tracked key that is idle has its IdleSince
\* set, to the timestamp of a cycle that had a sample of it, and
\* IdleSince <= LastSeenTime; every view has idle duration >= 0.
C16_IdleSinceInvariant ==
    /\ \A k \in DOMAIN states :
           states[k].IsIdle
           => /\ states[k].IdleSince # ZeroTime
              /\ states[k].IdleSince \in seenAt[k]
              /\ states[k].IdleSince <= states[k].LastSeenTime
    /\ \A i \in 1..Len(results) : results[i].IdleDuration >= 0

\* an idle key seen in three cycles at different times, idle since the
\* second, with a view that reports a positive duration
C16_Witness ==
    \E i \in 1..Len(results) :
        LET k == <<results[i].GPU, results[i].PID>>
        IN  /\ results[i].IsIdle
            /\ results[i].IdleDuration > 0
            /\ Cardinality(seenAt[k]) = 3
            /\ states[k].IdleSince > states[k].FirstSeenTime
            /\ states[k].IdleSince < states[k].LastSeenTime

\* C17 - state lifecycle: after an Update the tracked keys are the keys
\* tracked before and the keys of the batch, without the keys that are not
\* in the batch and whose LastSeenTime is more than staleTimeout before the
\* cycle's timestamp; so an entry is created only for a key of the batch,
\* deleted only when stale, and a key of the batch is never deleted.
C17_StateLifecycle ==
    [][LET stale == {k \in DOMAIN states :
                        /\ k \notin SampleKeys(batch')
                        /\ now' - states[k].LastSeenTime > staleTimeout}
       IN  /\ DOMAIN states' = (DOMAIN states \cup SampleKeys(batch')) \ stale
           /\ DOMAIN states' \ DOMAIN states \subseteq SampleKeys(batch')
           /\ DOMAIN states \ DOMAIN states' \subseteq stale
           /\ SampleKeys(batch') \subseteq DOMAIN states']_vars

\* a key deleted by the cleanup loop is out of the table, and the cycle
\* created an entry for another key
C17_Witness ==
    /\ \E k \in evicted : k \notin DOMAIN states
    /\ \E k \in SampleKeys(batch) : states[k].FirstSeenTime = now
    /\ now > 1

\* C18 as claimed - once per key and cycle: in an Update every key of the
\* batch has one view, and the view and the stored state of a sample's key
\* are those that the state before the call and that sample alone give,
\* whatever other samples of the key the batch holds.
C18_OncePerKeyAndCycle ==
    [][\A i \in 1..Len(batch') :
          LET p == batch'[i]
              k == SampleKey(p)
          IN  /\ Len(ViewsFor(results', k)) = 1
              /\ states'[k] = Classify(states, p, now')
              /\ results'[i] = Emit(Classify(states, p, now'), p, now')]_vars

\* the orderings of a list of samples
Orderings(ps) ==
    {[i \in 1..Len(ps) |-> ps[f[i]]] : f \in Permutations(1..Len(ps))}

Views(res) == {res[i] : i \in 1..Len(res)}

\* C19 as claimed - order independence: an Update of the same state table at
\* the same timestamp with the samples of the batch in any other order
\* leaves the same state table and returns the same set of views.
C19_OrderIndependence ==
    [][\A q \in Orderings(batch') :
          LET Same(other) == /\ other.states = states'
                             /\ Views(other.results) = Views(results')
          IN  Same(TrackerUpdate(states, q, now'))]_vars

\* C20 - determinism: a second tracker fed the same snapshots, at another
\* wall-clock time and with another iteration order of its states map in the
\* cleanup loop, holds the same state table and returns the same views as
\* the first after every cycle.
C20_Determinism ==
    /\ twin.states = states
    /\ twin.results = results

\* the twin's cleanup loop visited two keys, the higher GPU first, deleted
\* one and kept the other, which the cycle reports idle
C20_Witness ==
    /\ Len(twin.order) = 2
    /\ twin.order[1][1] > twin.order[2][1]
    /\ Cardinality(DOMAIN twin.states) = 1
    /\ Len(results) = 1
    /\ results[1].IsIdle
    /\ twin.results = results

\* what a view says about idleness
Idleness(v) ==
    [GPU |-> v.GPU, PID |-> v.PID, IsIdle |-> v.IsIdle,
     IdleDuration |-> v.IdleDuration, IdleMemory |-> v.IdleMemory]

\* C21 - no partial idle: a tracker fed the same cycles with other
\* magnitudes of the utilization values above 0 holds the same state table
\* after every cycle, and its views have the same IsIdle, IdleDuration and
\* IdleMemory.
C21_NoPartialIdle ==
    /\ twin.states = states
    /\ Len(twin.results) = Len(results)
    /\ \A i \in 1..Len(results) : Idleness(twin.results[i]) = Idleness(results[i])

\* one cycle in which the twin saw 1% and 99% where the first tracker saw
\* 50%, for a key that had been idle and for another, next to an idle view
C21_Witness ==
    /\ Len(results) = 2
    /\ results[1].SmUtil = 50
    /\ twin.results[1].SmUtil = 1
    /\ states[<<results[1].GPU, results[1].PID>>].IdleSince # ZeroTime
    /\ twin.results[2].IsIdle
    /\ twin.results[2].IdleDuration > 0
    /\ \E k \in DOMAIN twin.states : twin.states[k].LastActiveTime = now

C23_ConsumedOnce ==
    [][\A d \in DOMAIN nvml' :
          \A i \in 1..Len(nvml'[d].utilSamples) :
              nvml'[d].utilSamples[i] \notin consumed[d]]_vars

\* a device that consumed samples in two cycles: the last window held only
\* a sample later than one consumed before
C23_Witness ==
    \E d \in DOMAIN nvml :
        /\ Len(nvml[d].utilSamples) = 1
        /\ \E s \in consumed[d] : s.TimeStamp < nvml[d].utilSamples[1].TimeStamp
        /\ LastTS(lastSampleTime, d) = nvml[d].utilSamples[1].TimeStamp

\* C24 - eventual eviction: while cycles keep coming with later timestamps,
\* a key last seen at t is eventually either seen again or removed from the
\* state table; it is removed by the first cycle without it whose timestamp
\* exceeds its LastSeenTime + staleTimeout, and every cycle without it
\* before that one, empty or with other keys, leaves its state as it is.
C24_EventualEviction ==
    /\ \A k \in Keys : \A t \in 1..(MaxTime - staleTimeout - 1) :
           (k \in DOMAIN states /\ states[k].LastSeenTime = t)
               ~> (k \notin DOMAIN states \/ states[k].LastSeenTime > t)
    /\ [][\A k \in DOMAIN states :
              k \notin SampleKeys(batch') =>
                  IF now' > states[k].LastSeenTime + staleTimeout
                  THEN k \notin DOMAIN states'
                  ELSE k \in DOMAIN states' /\ states'[k] = states[k]]_vars

\* a key was removed by an empty cycle two time units or more after the
\* first cycle
C24_Witness ==
    /\ batch = <<>>
    /\ states = <<>>
    /\ evicted # {}
    /\ now = MaxTime

\* C25 - skipped cycle: a tick whose Collect returns an error leaves the
\* state table, the marks, the series of every gauge and prevProcessKeys as
\* they were; no key is swept, however stale it is at that tick.
C25_SkippedCycle ==
    [][~snap'.ok =>
          /\ states' = states
          /\ results' = results
          /\ lastSampleTime' = lastSampleTime
          /\ UNCHANGED exporterVars]_vars

\* after a failed tick, a key that is beyond the timeout at that tick is
\* still tracked and the series of the last successful cycle are still there
C25_Witness ==
    /\ ~snap.ok
    /\ \E k \in DOMAIN states : now - states[k].LastSeenTime > staleTimeout
    /\ prevProcessKeys # {}
    /\ DOMAIN processIdleMem # {}

\* the label sets of the views
LabelSets(vs) == {labels(vs[i]) : i \in 1..Len(vs)}

\* C26 - stale series cleanup: each of the four per-process gauges has a
\* series for exactly the label sets of the views of the last UpdateMetrics
\* call, and a call removes from all four every label set that had a series
\* and is not among the label sets of its views.
C26_StaleSeriesCleanup ==
    /\ [](/\ DOMAIN processComputeUtil = LabelSets(views)
          /\ DOMAIN processMemUsed = LabelSets(views)
          /\ DOMAIN processIdleSecs = LabelSets(views)
          /\ DOMAIN processIdleMem = LabelSets(views))
    /\ [][\A l \in DOMAIN processComputeUtil \ LabelSets(views') :
             /\ l \notin DOMAIN processComputeUtil'
             /\ l \notin DOMAIN processMemUsed'
             /\ l \notin DOMAIN processIdleSecs'
             /\ l \notin DOMAIN processIdleMem']_vars

\* a process that is still tracked has lost its series while another
\* process has one, under the name "q" read from "q\x00\n"
C26_Witness ==
    /\ snap.ok
    /\ \E k \in DOMAIN states :
           /\ k \notin SampleKeys(batch)
           /\ \A l \in DOMAIN processMemUsed : l.pid # Itoa(k[2])
    /\ \E l \in DOMAIN processMemUsed : l.process = <<113>>

\* the sum of IdleMemory over the first n views that are on device d
RECURSIVE SumIdleMemory(_, _, _)
SumIdleMemory(vs, d, n) ==
    IF n = 0
    THEN 0
    ELSE SumIdleMemory(vs, d, n - 1)
             + (IF vs[n].GPU = d THEN vs[n].IdleMemory ELSE 0)

\* the sum of UsedMemory over the idle ones of the first n views on device d
RECURSIVE SumHeldWhileIdle(_, _, _)
SumHeldWhileIdle(vs, d, n) ==
    IF n = 0
    THEN 0
    ELSE SumHeldWhileIdle(vs, d, n - 1)
             + (IF vs[n].GPU = d /\ vs[n].IsIdle THEN vs[n].UsedMemory ELSE 0)

\* C27 - aggregate idle memory: after a cycle that published metrics, for
\* every device of its snapshot the series of gpu_idle_memory_total_bytes
\* equals the sum of IdleMemory over the views on that device, which is the
\* sum of UsedMemory over the views on it with IsIdle.
C27_AggregateIdleMemory ==
    snap.ok =>
        \A d \in {i \in DOMAIN nvml : nvml[i].handle} :
            /\ Itoa(d) \in DOMAIN idleMemTotal
            /\ idleMemTotal[Itoa(d)] = SumIdleMemory(views, d, Len(views))
            /\ idleMemTotal[Itoa(d)] = SumHeldWhileIdle(views, d, Len(views))

\* device 0 has an idle and an active process, device 1 is in the snapshot
\* without a process
C27_Witness ==
    /\ snap.ok
    /\ nvml[1].handle
    /\ idleMemTotal[Itoa(1)] = 0
    /\ Len(views) = 2
    /\ \E i, j \in 1..2 : views[i].IsIdle /\ ~views[j].IsIdle
    /\ idleMemTotal[Itoa(0)] > 0

\* C28 - single timeline: at most one poll invocation is in progress at any
\* time; the tracker's state table and the collector's marks are accessed by
\* the polling goroutine alone, never by the HTTP-serving goroutine, and they
\* change only in the step in which a poll returns.
C28_SingleTimeline ==
    /\ [](polling <= 1)
    /\ [](\A a \in access : a[2] \in {"states", "lastSampleTime"} => a[1] = "poller")
    /\ [][states' # states \/ lastSampleTime' # lastSampleTime =>
              polling = 1 /\ polling' = 0]_vars

\* a tick and a request for /metrics arrived while a later poll was in
\* progress, and the tick waits in ticker.C
C28_Witness ==
    /\ polling = 1
    /\ tick
    /\ <<"http", "gauges">> \in access
    /\ <<"poller", "states">> \in access
    /\ states # <<>>

\* C29 as stated - after the signal the context is cancelled, the polling
\* loop starts no poll after its first one and returns, the server is shut
\* down and main ends through the normal path; an error of the server
\* cancels gctx and the polling loop returns.
C29_ShutdownNoFurtherPoll ==
    /\ (sigCh = "pending") ~> ctxDone
    /\ [][ctxDone /\ pc.poller # "start" => polling' <= polling]_vars
    /\ ctxDone ~> (pc.poller = "returned")
    /\ ctxDone ~> (pc.listener # "serving")
    /\ ctxDone ~> (exit = "normal")
    /\ errCh ~> gctxDone
    /\ gctxDone ~> (pc.poller = "returned")

\* C29 - shutdown: a signal taken from sigCh cancels the context (unless main
\* has ended before); once gctx is cancelled, by the signal or by an error
\* returned in the group, a poll starts only at the immediate first poll or
\* at a select that finds a tick in ticker.C, the polling loop eventually
\* returns, the server stops serving and main eventually ends: through the
\* normal path exactly when the first error returned in the group is
\* context.Canceled, through log.Fatalf otherwise; an error of the server
\* cancels gctx.
C29_Shutdown ==
    /\ (sigCh = "pending") ~> (ctxDone \/ exit # "running")
    /\ [][gctxDone /\ polling' > polling =>
              pc.poller = "start" \/ (pc.poller = "select" /\ tick)]_vars
    /\ gctxDone ~> (pc.poller = "returned")
    /\ gctxDone ~> (pc.listener # "serving")
    /\ gctxDone ~> (exit # "running")
    /\ [](exit # "running" => (exit = "normal" <=> firstErr = "Canceled"))
    /\ [][ctxDone => ctxDone' /\ gctxDone']_vars
    /\ errCh ~> gctxDone

\* main has ended through the normal path after a signal, with the server
\* shut down
C29_Witness ==
    /\ exit = "normal"
    /\ sigCh = "taken"
    /\ ctxDone
    /\ firstErr = "Canceled"
    /\ pc.listener = "closed"
    /\ polling = 0

====
